---- MODULE Spec2Model ----
(***************************************************************************)
(* Model of the voice-phone backend: the transcription service             *)
(* (app/services/transcription.py) with its regex filler/stutter removal,  *)
(* and the two upload handlers of app/main.py.                             *)
(*                                                                         *)
(* Text is a sequence of one-character strings, so that the regular        *)
(* expressions of _remove_fillers are modelled character by character.     *)
(***************************************************************************)
EXTENDS Integers, Sequences, FiniteSets, TLC

\* ------------------------------------------------------------------ bounds

\* words per generated transcript (Spec, SpecOrder)
MaxWords == 2
\* words per generated transcript of the stutter vocabulary (SpecStutter)
MaxRun == 5
\* concurrent upload requests (SpecHttp)
NumReq == 2

\* ------------------------------------------------------- characters, str

Lowers == <<"a","b","c","d","e","f","g","h","i","j","k","l","m",
            "n","o","p","q","r","s","t","u","v","w","x","y","z">>

Uppers == <<"A","B","C","D","E","F","G","H","I","J","K","L","M",
            "N","O","P","Q","R","S","T","U","V","W","X","Y","Z">>

Digits == {"0","1","2","3","4","5","6","7","8","9"}

LowerLetters == {Lowers[i] : i \in 1..Len(Lowers)}

UpperLetters == {Uppers[i] : i \in 1..Len(Uppers)}

WordChars == LowerLetters \cup UpperLetters \cup Digits \cup {"_"}

\* the class \w of re (letters, digits, underscore)
IsWordChar(c) == c \in WordChars

\* the class \s of re, which is also what str.split() and str.strip() cut at
IsSpace(c) == c \in {" ", "\t", "\n", "\r", "\f"}

ToLower == [c \in UpperLetters |-> Lowers[CHOOSE i \in 1..Len(Uppers) : Uppers[i] = c]]

ToUpper == [c \in LowerLetters |-> Uppers[CHOOSE i \in 1..Len(Lowers) : Lowers[i] = c]]

\* str.lower() on one character
LowerChar(c) == IF c \in UpperLetters THEN ToLower[c] ELSE c

\* str.upper() on one character
UpperChar(c) == IF c \in LowerLetters THEN ToUpper[c] ELSE c

\* text.lower()
Lower(s) == [i \in 1..Len(s) |-> LowerChar(s[i])]

\* s[i:j] with 0-based offsets, as Python slices
Slice(s, i, j) == IF j <= i THEN << >> ELSE SubSeq(s, i + 1, j)

\* \b at 0-based offset p of s: exactly one side of p is a word character
WordBoundary(s, p) ==
    LET before == p >= 1 /\ p <= Len(s) /\ IsWordChar(s[p])
        after  == p < Len(s) /\ p >= 0 /\ IsWordChar(s[p + 1])
    IN  before # after

\* a literal of a pattern matches s at offset p (re.IGNORECASE if ic)
LiteralAt(s, p, lit, ic) ==
    /\ p + Len(lit) <= Len(s)
    /\ \A k \in 1..Len(lit) :
          IF ic THEN LowerChar(s[p + k]) = LowerChar(lit[k])
                ELSE s[p + k] = lit[k]

\* len(text.split()): the maximal runs of non-whitespace characters
WordCount(s) ==
    Cardinality({i \in 1..Len(s) :
                    /\ ~IsSpace(s[i])
                    /\ (i = 1 \/ IsSpace(s[i - 1]))})

\* str.strip()
Strip(s) ==
    LET keep == {i \in 1..Len(s) : ~IsSpace(s[i])}
    IN  IF keep = {} THEN << >>
        ELSE LET lo == CHOOSE i \in keep : \A j \in keep : i <= j
                 hi == CHOOSE i \in keep : \A j \in keep : i >= j
             IN  SubSeq(s, lo, hi)

\* ------------------------------------------------------------ the lexicon

\* self.filler_words, in the order the source lists the entries
FillerList ==
  << <<"u","m">>,
     <<"u","h">>,
     <<"a","h">>,
     <<"e","r">>,
     <<"h","m","m">>,
     <<"u","h","h">>,
     <<"u","m","m">>,
     <<"a","h","h">>,
     <<"b","a","s","i","c","a","l","l","y">>,
     <<"a","c","t","u","a","l","l","y">>,
     <<"l","i","k","e">>,
     <<"y","o","u"," ","k","n","o","w">>,
     <<"i"," ","m","e","a","n">>,
     <<"k","i","n","d"," ","o","f">>,
     <<"s","o","r","t"," ","o","f">>,
     <<"y","o","u"," ","s","e","e">>,
     <<"r","i","g","h","t">> >>

\* self.filler_words as the set it is
FillerWords == {FillerList[i] : i \in 1..Len(FillerList)}

\* the orders in which '|'.join(self.filler_words) may list a set of entries:
\* every sequence that lists each entry of fw exactly once
IsJoinOrder(order, fw) ==
    /\ Len(order) = Cardinality(fw)
    /\ {order[i] : i \in 1..Len(order)} = fw

\* ------------------------------------------------ _remove_fillers, stages

\* length of the match of the alternative lit of \b(...|lit|...)\b at offset p,
\* 0 if it does not match there
AlternativeNoBoundaryLen(s, p, lit) ==
    IF LiteralAt(s, p, lit, TRUE) THEN Len(lit) ELSE 0

AlternativeLen(s, p, lit) ==
    IF LiteralAt(s, p, lit, TRUE) /\ WordBoundary(s, p + Len(lit))
    THEN Len(lit) ELSE 0

\* length of the match of filler_pattern at offset p, 0 if none: the leading
\* \b, then the first alternative, in the order of the join, that matches
FillerMatchLen(s, p, order) ==
    IF ~WordBoundary(s, p) THEN 0
    ELSE LET hits == {k \in 1..Len(order) : AlternativeLen(s, p, order[k]) > 0}
         IN  IF hits = {} THEN 0
             ELSE AlternativeLen(s, p,
                      order[CHOOSE k \in hits : \A j \in hits : k <= j])

\* re.sub(filler_pattern, '', s) from offset p on: leftmost matches, not
\* overlapping, each replaced by the empty string
RECURSIVE FillerSubFrom(_, _, _)
FillerSubFrom(s, p, order) ==
    IF p >= Len(s) THEN << >>
    ELSE LET n == FillerMatchLen(s, p, order)
         IN  IF n > 0 THEN FillerSubFrom(s, p + n, order)
             ELSE <<s[p + 1]>> \o FillerSubFrom(s, p + 1, order)

\* re.sub(filler_pattern, ' ', s): each match replaced by a space
RECURSIVE FillerSubSpaceFrom(_, _, _)
FillerSubSpaceFrom(s, p, order) ==
    IF p >= Len(s) THEN << >>
    ELSE LET n == FillerMatchLen(s, p, order)
         IN  IF n > 0 THEN <<" ">> \o FillerSubSpaceFrom(s, p + n, order)
             ELSE <<s[p + 1]>> \o FillerSubSpaceFrom(s, p + 1, order)

FillerSubSpace(s, order) == FillerSubSpaceFrom(s, 0, order)

\* re.sub(filler_pattern, '', s, count=1): only the leftmost match replaced
RECURSIVE FillerSubFirstFrom(_, _, _)
FillerSubFirstFrom(s, p, order) ==
    IF p >= Len(s) THEN << >>
    ELSE LET n == FillerMatchLen(s, p, order)
         IN  IF n > 0 THEN Slice(s, p + n, Len(s))
             ELSE <<s[p + 1]>> \o FillerSubFirstFrom(s, p + 1, order)

FillerSubFirst(s, order) == FillerSubFirstFrom(s, 0, order)

FillerSub(s, order) == FillerSubFrom(s, 0, order)

\* the match of \b(\w+)\s+\1\b at offset p as [k, m]: group 1 has k characters
\* and \s+ has m; [0, 0] if there is no match.  \w+ and \s+ are greedy, so
\* the longest k, then the longest m, that lets the rest match is taken.
StutterMatch(s, p) ==
    LET rest == Len(s) - p
        ks   == {k \in 1..(rest \div 2) :
                    \A i \in 1..k : IsWordChar(s[p + i])}
        ms(k) == {m \in 1..(rest - 2 * k) :
                    /\ \A i \in 1..m : IsSpace(s[p + k + i])
                    /\ \A i \in 1..k : s[p + k + m + i] = s[p + i]
                    /\ WordBoundary(s, p + 2 * k + m)}
        cand == UNION {{<<k, m>> : m \in ms(k)} : k \in ks}
    IN  IF ~WordBoundary(s, p) \/ cand = {} THEN <<0, 0>>
        ELSE CHOOSE km \in cand :
                \A o \in cand : \/ km[1] > o[1]
                                \/ (km[1] = o[1] /\ km[2] >= o[2])

\* re.sub(r'\b(\w+)\s+\1\b', r'\1', s) from offset p on: one pass, left to
\* right, the scan resuming after each match
RECURSIVE StutterSubFrom(_, _)
StutterSubFrom(s, p) ==
    IF p >= Len(s) THEN << >>
    ELSE LET km == StutterMatch(s, p)
         IN  IF km[1] > 0
             THEN Slice(s, p, p + km[1])
                    \o StutterSubFrom(s, p + 2 * km[1] + km[2])
             ELSE <<s[p + 1]>> \o StutterSubFrom(s, p + 1)

\* the same substitution applied until nothing matches any more
RECURSIVE StutterSubExhaustive(_)
StutterSubExhaustive(s) ==
    LET t == StutterSubFrom(s, 0)
    IN  IF t = s THEN s ELSE StutterSubExhaustive(t)

StutterSub(s) == StutterSubFrom(s, 0)

\* re.sub(r'\s+', ' ', s): every maximal run of whitespace becomes one space
RECURSIVE SpaceSubFrom(_, _)
SpaceSubFrom(s, p) ==
    IF p >= Len(s) THEN << >>
    ELSE IF IsSpace(s[p + 1])
         THEN IF p >= 1 /\ IsSpace(s[p]) THEN SpaceSubFrom(s, p + 1)
              ELSE <<" ">> \o SpaceSubFrom(s, p + 1)
         ELSE <<s[p + 1]>> \o SpaceSubFrom(s, p + 1)

SpaceSub(s) == SpaceSubFrom(s, 0)

\* cleaned[0].upper() + cleaned[1:] without the test `if cleaned`: indexing
\* the empty string raises IndexError
CapitalizeUnguarded(cleaned) ==
    IF Len(cleaned) = 0
    THEN [raised |-> "IndexError", text |-> << >>]
    ELSE [raised |-> "", text |-> <<UpperChar(cleaned[1])>> \o Tail(cleaned)]

\* if cleaned: cleaned = cleaned[0].upper() + cleaned[1:]
Capitalize(cleaned) ==
    IF cleaned # << >>
    THEN [raised |-> "", text |-> <<UpperChar(cleaned[1])>> \o Tail(cleaned)]
    ELSE [raised |-> "", text |-> cleaned]

\* the text after the filler substitution of line 80
Defillered(text, order) == FillerSub(Lower(text), order)

\* the text after the stutter substitution of line 83
Destuttered(text, order) == StutterSub(Defillered(text, order))

\* _remove_fillers(text): [raised, text], raised = "" when it returns
RemoveFillers(text, order) ==
    Capitalize(Strip(SpaceSub(Destuttered(text, order))))

\* --------------------------------------------------------------- the state

VARIABLES
    filler_words,   \* self.filler_words of the TranscriptionService
    order,          \* the order in which '|'.join(self.filler_words) lists it
    pc,             \* where the call of transcribe() is: idle, calling, done, twice
    remove_fillers, \* the argument remove_fillers of the call
    transcription,  \* what the provider call produced: [ok, text]
    result,         \* the dictionary transcribe() returned
    again,          \* _remove_fillers applied to the clean_text of result
    hpc,            \* per request: where its upload handler is
    request,        \* per request: [route, filename, remove_fillers]
    tmp,            \* per request: its temporary file: none, exists, unlinked
    temp_path,      \* per request: whether the local temp_path is bound
    called,         \* per request: whether transcribe() has been called
    hresult,        \* per request: what transcribe() returned to the handler
    response        \* per request: [status, body] it was answered with

svars == <<filler_words, order, pc, remove_fillers, transcription, result, again>>

hvars == <<hpc, request, tmp, temp_path, called, hresult, response>>

vars == <<filler_words, order, pc, remove_fillers, transcription, result, again,
          hpc, request, tmp, temp_path, called, hresult, response>>

\* ------------------------------------------------------------ transcripts

\* the empty transcript and every w1 s1 w2 s2 ... of at most n words of W,
\* each followed by a separator of S
RECURSIVE Texts(_, _, _)
Texts(W, S, n) ==
    IF n = 0 THEN {<< >>}
    ELSE LET shorter == Texts(W, S, n - 1)
         IN  shorter \cup {t \o w \o sp : t \in shorter, w \in W, sp \in S}

\* the transcripts the specification gives as test cases
Examples ==
    { <<"u","m"," ","I"," ","m","e","a","n"," ","t","h","i","s"," ","i","s"," ","l","i","k","e"," ","b","a","s","i","c","a","l","l","y"," ","f","i","n","e">>,
      <<"t","h","e"," ","t","h","e"," ","t","h","e"," ","c","a","t">>,
      <<"I"," ","l","i","k","e","l","y"," ","w","i","l","l"," ","g","o">>,
      <<"y","o","u"," ","k","n","o","w"," ","t","h","i","s"," ","i","s",","," ","y","o","u"," ","k","n","o","w",","," ","i","m","p","o","r","t","a","n","t">> }

Vocabulary ==
    { <<>>,
      <<"U","m","m">>,
      <<"y","o","u">>,
      <<"k","n","o","w">>,
      <<"t","h","e">>,
      <<"l","i","k","e","l","y">> }

Separators ==
    { <<>>,
      <<" ">>,
      <<" ","\t">>,
      <<",">> }

\* what the provider may return as transcription.text
Transcripts == Texts(Vocabulary, Separators, MaxWords) \cup Examples

\* transcripts of repeated words
RunVocabulary ==
    { <<"t","h","e">>,
      <<"c","a","t">> }

RunSeparators ==
    { <<" ">>,
      <<" ","\n">> }

TheTheTheCat ==
    <<"t","h","e"," ","t","h","e"," ","t","h","e"," ","c","a","t">>

RunTranscripts ==
    Texts(RunVocabulary, RunSeparators, MaxRun) \cup {TheTheTheCat}

\* transcripts of lexicon entries of which one is the beginning of another
OrderVocabulary ==
    { <<"u","m">>,
      <<"u","m","m">>,
      <<"u","h","h">>,
      <<"y","o","u"," ","k","n","o","w">>,
      <<"y","o","u">> }

OrderSeparators ==
    { <<>>,
      <<" ">> }

OrderTranscripts == Texts(OrderVocabulary, OrderSeparators, MaxWords)

\* order rotated left by k entries
Rotate(list, k) ==
    [i \in 1..Len(list) |-> list[((i - 1 + k) % Len(list)) + 1]]

Reverse(list) == [i \in 1..Len(list) |-> list[Len(list) + 1 - i]]

\* orders the join may produce: rotations of the listing and their reversals,
\* so that every two entries occur in both relative orders
JoinOrders ==
    {Rotate(FillerList, k) : k \in 0..Len(FillerList) - 1}
      \cup {Reverse(Rotate(FillerList, k)) : k \in 0..Len(FillerList) - 1}

\* ------------------------------------------- TranscriptionService.transcribe

NoResult == [none |-> TRUE]

\* transcribe() that cleans the text whatever remove_fillers says
TranscribeResultAlways(text, flag, ord) ==
    LET rf == RemoveFillers(text, ord)
    IN  IF rf.raised # ""
        THEN [success |-> FALSE, error |-> rf.raised]
        ELSE [success |-> TRUE,
              raw_text |-> text,
              clean_text |-> rf.text,
              language |-> "en",
              duration |-> "duration",
              fillers_removed |-> WordCount(text) - WordCount(rf.text)]

\* lines 51-63 with the except clause of lines 65-69 around them: what
\* transcribe() returns once the provider has returned text
TranscribeResult(text, flag, ord) ==
    LET rf == IF flag THEN RemoveFillers(text, ord)
                      ELSE [raised |-> "", text |-> text]
    IN  IF rf.raised # ""
        THEN [success |-> FALSE, error |-> rf.raised]
        ELSE [success |-> TRUE,
              raw_text |-> text,
              clean_text |-> rf.text,
              language |-> "en",
              duration |-> "duration",
              fillers_removed |-> WordCount(text) - WordCount(rf.text)]

\* lines 65-69: what transcribe() returns when opening the file or the
\* provider call raises
TranscribeError == [success |-> FALSE, error |-> "provider error"]

\* transcribe(path, remove_fillers=flag) is entered and calls the provider
Call(flag) ==
    /\ pc = "idle"
    /\ pc' = "calling"
    /\ remove_fillers' = flag
    /\ UNCHANGED <<filler_words, order, transcription, result, again>>
    /\ UNCHANGED hvars

\* the provider returns a transcription with a text of T: lines 51-63
ProviderReturns(T) ==
    /\ pc = "calling"
    /\ \E text \in T :
          /\ transcription' = [ok |-> TRUE, text |-> text]
          /\ result' = TranscribeResult(text, remove_fillers, order)
    /\ pc' = "done"
    /\ UNCHANGED <<filler_words, order, remove_fillers, again>>
    /\ UNCHANGED hvars

\* open() or the provider call raises: lines 65-69
ProviderFails ==
    /\ pc = "calling"
    /\ transcription' = [ok |-> FALSE, text |-> << >>]
    /\ result' = TranscribeError
    /\ pc' = "done"
    /\ UNCHANGED <<filler_words, order, remove_fillers, again>>
    /\ UNCHANGED hvars

\* the caller applies _remove_fillers to the clean text it was given
Renormalize ==
    /\ pc = "done"
    /\ result.success
    /\ again' = RemoveFillers(result.clean_text, order)
    /\ pc' = "twice"
    /\ UNCHANGED <<filler_words, order, remove_fillers, transcription, result>>
    /\ UNCHANGED hvars

\* the caller drops the result; the service is ready for the next call
Return ==
    /\ pc \in {"done", "twice"}
    /\ pc' = "idle"
    /\ remove_fillers' = TRUE
    /\ transcription' = [ok |-> FALSE, text |-> << >>]
    /\ result' = NoResult
    /\ again' = [raised |-> "", text |-> << >>]
    /\ UNCHANGED <<filler_words, order>>
    /\ UNCHANGED hvars

\* the state after TranscriptionService.__init__, the join order being ord
ServiceInit(ord) ==
    /\ filler_words = FillerWords
    /\ order = ord
    /\ pc = "idle"
    /\ remove_fillers = TRUE
    /\ transcription = [ok |-> FALSE, text |-> << >>]
    /\ result = NoResult
    /\ again = [raised |-> "", text |-> << >>]

\* ------------------------------------------------------ app/main.py

Requests == 1..NumReq

\* allowed_types of transcribe_audio
AllowedTypes ==
    { <<".","w","a","v">>, <<".","m","p","3">>, <<".","m","4","a">>,
      <<".","o","g","g">>, <<".","f","l","a","c">>, <<".","w","e","b","m">> }

\* os.path.splitext(p)[1]: from the last dot on, unless that dot is before the
\* last "/" or only dots lie between the last "/" and it
SplitExt(p) ==
    LET slashes == {i \in 1..Len(p) : p[i] = "/"}
        dots    == {i \in 1..Len(p) : p[i] = "."}
        sep     == IF slashes = {} THEN 0
                   ELSE CHOOSE i \in slashes : \A j \in slashes : i >= j
        dot     == IF dots = {} THEN 0
                   ELSE CHOOSE i \in dots : \A j \in dots : i >= j
    IN  IF dot > sep /\ \E i \in (sep + 1)..(dot - 1) : p[i] # "."
        THEN SubSeq(p, dot, Len(p))
        ELSE << >>

\* file_ext of transcribe_audio
FileExt(name) == Lower(SplitExt(name))

\* the names an upload may carry
Filenames ==
    { << >>,
      <<"a",".","O","G","G">>,
      <<"a",".","e","x","e">>,
      <<".","w","a","v">> }

\* what the provider returns to a handler
UploadTranscripts ==
    { <<"U","m"," ","u","m"," ","u","m","m"," ","g","o">>,
      <<"g","o"," ","g","o">> }

NoRequest == [route |-> "none", filename |-> << >>, remove_fillers |-> TRUE]

NoResponse == [status |-> 0]

\* no upload request is in progress
HandlersIdle ==
    /\ hpc = [r \in Requests |-> "idle"]
    /\ request = [r \in Requests |-> NoRequest]
    /\ tmp = [r \in Requests |-> "none"]
    /\ temp_path = [r \in Requests |-> FALSE]
    /\ called = [r \in Requests |-> FALSE]
    /\ hresult = [r \in Requests |-> NoResult]
    /\ response = [r \in Requests |-> NoResponse]

\* POST /api/v1/transcribe arrives: lines 64-80, the checks of the upload
\* and, if it passes them, tempfile.NamedTemporaryFile(delete=False, ...),
\* up to the await of audio.read()
PostTranscribe(r) ==
    /\ hpc[r] = "idle"
    /\ \E name \in Filenames, flag \in BOOLEAN :
          /\ request' = [request EXCEPT ![r] =
                 [route |-> "transcribe", filename |-> name,
                  remove_fillers |-> flag]]
          /\ IF name = << >>
             THEN /\ response' = [response EXCEPT ![r] =
                         [status |-> 400, body |-> "No file uploaded"]]
                  /\ hpc' = [hpc EXCEPT ![r] = "done"]
                  /\ UNCHANGED tmp
             ELSE IF FileExt(name) \notin AllowedTypes
             THEN /\ response' = [response EXCEPT ![r] =
                         [status |-> 400, body |-> "Unsupported file type"]]
                  /\ hpc' = [hpc EXCEPT ![r] = "done"]
                  /\ UNCHANGED tmp
             ELSE /\ tmp' = [tmp EXCEPT ![r] = "exists"]
                  /\ hpc' = [hpc EXCEPT ![r] = "read"]
                  /\ UNCHANGED response
    /\ UNCHANGED <<temp_path, called, hresult>>
    /\ UNCHANGED svars

\* POST /api/v1/test-command arrives: lines 115-116, nothing is checked
\* before tempfile.NamedTemporaryFile(delete=False, suffix=".wav")
PostTestCommand(r) ==
    /\ hpc[r] = "idle"
    /\ \E name \in Filenames :
          request' = [request EXCEPT ![r] =
              [route |-> "test-command", filename |-> name,
               remove_fillers |-> TRUE]]
    /\ tmp' = [tmp EXCEPT ![r] = "exists"]
    /\ hpc' = [hpc EXCEPT ![r] = "read"]
    /\ UNCHANGED <<temp_path, called, hresult, response>>
    /\ UNCHANGED svars

\* the upload is read and written, temp_path is bound: lines 81-83, 117-119
SaveUpload(r) ==
    /\ hpc[r] = "read"
    /\ temp_path' = [temp_path EXCEPT ![r] = TRUE]
    /\ hpc' = [hpc EXCEPT ![r] = "transcribe"]
    /\ UNCHANGED <<request, tmp, called, hresult, response>>
    /\ UNCHANGED svars

\* audio.read() or temp_file.write() raises: the except clause of lines
\* 100-108 finds no temp_path among the locals, that of 133-134 never unlinks
SaveFails(r) ==
    /\ hpc[r] = "read"
    /\ response' = [response EXCEPT ![r] =
           [status |-> 500, body |-> "read error"]]
    /\ hpc' = [hpc EXCEPT ![r] = "done"]
    /\ UNCHANGED <<request, tmp, temp_path, called, hresult>>
    /\ UNCHANGED svars

\* await transcription_service.transcribe(temp_path, ...): lines 86-90, 121;
\* transcribe() cannot open a file that does not exist
CallTranscribe(r) ==
    /\ hpc[r] = "transcribe"
    /\ \/ \E text \in UploadTranscripts :
             /\ tmp[r] = "exists"
             /\ hresult' = [hresult EXCEPT ![r] =
                    TranscribeResult(text, request[r].remove_fillers, order)]
       \/ hresult' = [hresult EXCEPT ![r] = TranscribeError]
    /\ called' = [called EXCEPT ![r] = TRUE]
    /\ hpc' = [hpc EXCEPT ![r] = "unlink"]
    /\ UNCHANGED <<request, tmp, temp_path, response>>
    /\ UNCHANGED svars

\* os.unlink(temp_path) placed after the test of result["success"]
UnlinkOnSuccess(r) ==
    /\ hpc[r] = "unlink"
    /\ tmp' = [tmp EXCEPT ![r] =
                  IF hresult[r].success THEN "unlinked" ELSE tmp[r]]
    /\ hpc' = [hpc EXCEPT ![r] = "respond"]
    /\ UNCHANGED <<request, temp_path, called, hresult, response>>
    /\ UNCHANGED svars

\* os.unlink(temp_path): lines 93 and 122
Unlink(r) ==
    /\ hpc[r] = "unlink"
    /\ tmp' = [tmp EXCEPT ![r] = "unlinked"]
    /\ hpc' = [hpc EXCEPT ![r] = "respond"]
    /\ UNCHANGED <<request, temp_path, called, hresult, response>>
    /\ UNCHANGED svars

\* the body test_command answers with: lines 125-129
Command(res) ==
    [command |-> res.clean_text,
     raw |-> res.raw_text,
     confidence |-> IF res.fillers_removed < 3 THEN "high" ELSE "medium"]

\* the answer: lines 95-98 and 124-131.  On success=false HTTPException(500)
\* is raised inside the try and caught by the except clause, which in
\* transcribe_audio unlinks temp_path again if it is bound (lines 102-106, an
\* error of that unlink is swallowed) and raises HTTPException(500) anew
Respond(r) ==
    /\ hpc[r] = "respond"
    /\ IF hresult[r].success
       THEN /\ response' = [response EXCEPT ![r] =
                   [status |-> 200,
                    body |-> IF request[r].route = "transcribe"
                             THEN hresult[r] ELSE Command(hresult[r])]]
            /\ UNCHANGED tmp
       ELSE /\ response' = [response EXCEPT ![r] =
                   [status |-> 500, body |-> hresult[r].error]]
            /\ tmp' = [tmp EXCEPT ![r] =
                   IF request[r].route = "transcribe" /\ temp_path[r]
                   THEN "unlinked" ELSE tmp[r]]
    /\ hpc' = [hpc EXCEPT ![r] = "done"]
    /\ UNCHANGED <<request, temp_path, called, hresult>>
    /\ UNCHANGED svars

\* the answer is sent, the handler's frame is gone; a file it left behind
\* stays in the temporary directory, out of reach of any later request
Finish(r) ==
    /\ hpc[r] = "done"
    /\ hpc' = [hpc EXCEPT ![r] = "idle"]
    /\ request' = [request EXCEPT ![r] = NoRequest]
    /\ tmp' = [tmp EXCEPT ![r] = "none"]
    /\ temp_path' = [temp_path EXCEPT ![r] = FALSE]
    /\ called' = [called EXCEPT ![r] = FALSE]
    /\ hresult' = [hresult EXCEPT ![r] = NoResult]
    /\ response' = [response EXCEPT ![r] = NoResponse]
    /\ UNCHANGED svars

\* --------------------------------------------------------- specifications

\* the service called with the transcripts of Transcripts
Init == ServiceInit(FillerList) /\ HandlersIdle

Next ==
    \/ \E flag \in BOOLEAN : Call(flag)
    \/ ProviderReturns(Transcripts)
    \/ ProviderFails
    \/ Return

Spec == Init /\ [][Next]_vars

\* the service called with runs of repeated words, its result normalised again
NextStutter ==
    \/ Call(TRUE)
    \/ ProviderReturns(RunTranscripts)
    \/ ProviderFails
    \/ Renormalize
    \/ Return

SpecStutter == Init /\ [][NextStutter]_vars

\* the service built in a process whose set order is any of JoinOrders
InitOrder == (\E ord \in JoinOrders : ServiceInit(ord)) /\ HandlersIdle

NextOrder ==
    \/ Call(TRUE)
    \/ ProviderReturns(OrderTranscripts)
    \/ ProviderFails
    \/ Return

SpecOrder == InitOrder /\ [][NextOrder]_vars

\* the upload handlers serving NumReq requests at a time
NextHttp ==
    \E r \in Requests :
        \/ PostTranscribe(r)
        \/ PostTestCommand(r)
        \/ SaveUpload(r)
        \/ SaveFails(r)
        \/ CallTranscribe(r)
        \/ Unlink(r)
        \/ Respond(r)
        \/ Finish(r)

SpecHttp == Init /\ [][NextHttp]_vars

\* ------------------------------------------------------------- properties

\* text.split(): the maximal runs of non-whitespace characters, in order
RECURSIVE SplitFrom(_, _)
SplitFrom(s, p) ==
    IF p >= Len(s) THEN << >>
    ELSE IF IsSpace(s[p + 1]) THEN SplitFrom(s, p + 1)
    ELSE LET ends == {j \in (p + 1)..Len(s) :
                         /\ \A i \in (p + 1)..j : ~IsSpace(s[i])
                         /\ (j = Len(s) \/ IsSpace(s[j + 1]))}
             j == CHOOSE x \in ends : TRUE
         IN  <<SubSeq(s, p + 1, j)>> \o SplitFrom(s, j)

Split(s) == SplitFrom(s, 0)

\* the maximal runs of word characters of s
WordsOf(s) ==
    LET starts == {i \in 1..Len(s) :
                      IsWordChar(s[i]) /\ (i = 1 \/ ~IsWordChar(s[i - 1]))}
        End(i) == CHOOSE j \in i..Len(s) :
                      /\ \A k \in i..j : IsWordChar(s[k])
                      /\ (j = Len(s) \/ ~IsWordChar(s[j + 1]))
    IN  {SubSeq(s, i, End(i)) : i \in starts}

\* e occurs in s between two word boundaries, whatever the case of the letters
Occurs(e, s) ==
    \E p \in 0..(Len(s) - Len(e)) :
        /\ WordBoundary(s, p)
        /\ LiteralAt(s, p, e, TRUE)
        /\ WordBoundary(s, p + Len(e))

\* e is a part of w and not all of it
ProperPartOf(e, w) ==
    /\ Len(e) < Len(w)
    /\ \E p \in 0..(Len(w) - Len(e)) : LiteralAt(w, p, e, TRUE)

\* the length of the run of words equal to ws[1] that ws begins with
RunLength(ws) ==
    CHOOSE n \in 1..Len(ws) :
        /\ \A i \in 1..n : ws[i] = ws[1]
        /\ (n = Len(ws) \/ ws[n + 1] # ws[1])

\* every maximal run of n equal words cut down to ceil(n/2) of them
RECURSIVE HalveRuns(_)
HalveRuns(ws) ==
    IF ws = << >> THEN << >>
    ELSE LET n == RunLength(ws)
         IN  [i \in 1..((n + 1) \div 2) |-> ws[1]]
               \o HalveRuns(SubSeq(ws, n + 1, Len(ws)))

\* ws has a maximal run of exactly three equal words
HasTripleRun(ws) ==
    \E i \in 1..(Len(ws) - 2) :
        /\ ws[i] = ws[i + 1] /\ ws[i] = ws[i + 2]
        /\ (i = 1 \/ ws[i - 1] # ws[i])
        /\ (i + 2 = Len(ws) \/ ws[i + 3] # ws[i])

\* transcribe() has returned after the provider returned a text
Transcribed == pc \in {"done", "twice"} /\ transcription.ok

\* and it was asked to remove the fillers
Cleaned == Transcribed /\ remove_fillers

TheTheCat == <<"T","h","e"," ","t","h","e"," ","c","a","t">>

TheCat == <<"T","h","e"," ","c","a","t">>

\* C1: whenever transcribe() succeeds, with remove_fillers true or false,
\* fillers_removed is the number of whitespace-separated words of raw_text
\* minus that of clean_text and is not negative, and no stage of
\* _remove_fillers (lower-casing, filler deletion, stutter collapse,
\* whitespace collapse and trimming, capitalisation) increases that number.
C1_FillersRemovedIsWordDelta ==
    Transcribed =>
        /\ result.success
        /\ result.fillers_removed
             = WordCount(result.raw_text) - WordCount(result.clean_text)
        /\ result.fillers_removed >= 0
        /\ remove_fillers =>
             LET t  == transcription.text
                 s1 == Lower(t)
                 s2 == FillerSub(s1, order)
                 s3 == StutterSub(s2)
                 s4 == Strip(SpaceSub(s3))
             IN  /\ WordCount(s1) <= WordCount(t)
                 /\ WordCount(s2) <= WordCount(s1)
                 /\ WordCount(s3) <= WordCount(s2)
                 /\ WordCount(s4) <= WordCount(s3)
                 /\ WordCount(result.clean_text) <= WordCount(s4)

C1_Witness ==
    /\ pc = "done" /\ transcription.ok /\ remove_fillers
    /\ result.success
    /\ result.fillers_removed = 2
    /\ WordCount(result.clean_text) = 0

\* C3: on a transcript of non-filler words separated by whitespace the stutter
\* collapse is one left-to-right pass over non-overlapping pairs: every
\* maximal run of n equal words is left with ceil(n/2) of them, so that
\* "the the the cat" becomes "The the cat".
C3_RunsAreHalved ==
    Cleaned /\ Defillered(transcription.text, order) = Lower(transcription.text) =>
        /\ result.success
        /\ Split(Lower(result.clean_text))
             = HalveRuns(Split(Lower(transcription.text)))
        /\ transcription.text = TheTheTheCat => result.clean_text = TheTheCat

C3_Witness ==
    /\ pc = "done" /\ transcription.ok
    /\ transcription.text = TheTheTheCat
    /\ result.success
    /\ result.clean_text = TheTheCat

\* C4 as claimed: the string _remove_fillers returns contains no lexicon entry,
\* word or phrase, between word boundaries.
C4_NoEntryInResult ==
    Cleaned =>
        /\ result.success
        /\ \A e \in FillerWords : ~Occurs(e, result.clean_text)

\* C4 as amended: the substitution pass deletes every whole-word or
\* whole-phrase occurrence of a lexicon entry that the lower-cased input
\* holds, so the text it leaves contains no lexicon entry between word
\* boundaries, and the returned string contains no one-word entry.  (A phrase
\* may occur in the returned string where the input had its words apart.)
\* "um I mean this is like basically fine" becomes "This is fine" and both
\* "you know" of "you know this is, you know, important" are removed.
C4_NoEntryAfterFillerPass ==
    Cleaned =>
        LET left == Defillered(transcription.text, order)
        IN  /\ result.success
            /\ \A e \in FillerWords :
                  /\ ~Occurs(e, left)
                  /\ (\A i \in 1..Len(e) : ~IsSpace(e[i]))
                        => ~Occurs(e, result.clean_text)
            /\ transcription.text \in Examples =>
                  \A e \in FillerWords : ~Occurs(e, result.clean_text)

UmIMean ==
    <<"u","m"," ","I"," ","m","e","a","n"," ","t","h","i","s"," ","i","s"," ",
      "l","i","k","e"," ","b","a","s","i","c","a","l","l","y"," ",
      "f","i","n","e">>

C4_Witness ==
    /\ pc = "done" /\ transcription.ok /\ remove_fillers
    /\ transcription.text = UmIMean
    /\ result.success
    /\ result.clean_text = <<"T","h","i","s"," ","i","s"," ","f","i","n","e">>

Likely == <<"l","i","k","e","l","y">>

\* C5: fillers are matched as whole words only: a word of the input (a
\* maximal run of word characters) that is no lexicon entry but has a
\* one-word lexicon entry as a proper part of it, as "likely" has "like", is
\* left alone by the filler deletion and is a word of the returned string.
C5_LongerWordsKept ==
    Cleaned =>
        LET left == WordsOf(Defillered(transcription.text, order))
            kept == WordsOf(Lower(result.clean_text))
        IN  /\ result.success
            /\ \A w \in WordsOf(Lower(transcription.text)) :
                  (/\ w \notin FillerWords
                   /\ \E e \in FillerWords : ProperPartOf(e, w))
                  => (w \in left /\ w \in kept)

C5_Witness ==
    /\ pc = "done" /\ transcription.ok /\ remove_fillers
    /\ Likely \in WordsOf(transcription.text)
    /\ <<"u","m","m">> \in WordsOf(Lower(transcription.text))
    /\ result.success
    /\ Likely \in WordsOf(Lower(result.clean_text))
    /\ <<"u","m","m">> \notin WordsOf(Lower(result.clean_text))

\* C6: _remove_fillers is total: whatever text the provider returns it returns
\* a string and does not raise, for the empty text and for a text of
\* whitespace only it returns the empty string, and it capitalises only a
\* result that is not empty.
C6_RemoveFillersTotal ==
    Cleaned =>
        /\ result.success
        /\ DOMAIN result = {"success", "raw_text", "clean_text", "language",
                            "duration", "fillers_removed"}
        /\ WordCount(transcription.text) = 0 => result.clean_text = << >>
        /\ result.clean_text # << >> =>
              /\ ~IsSpace(result.clean_text[1])
              /\ result.clean_text[1] = UpperChar(result.clean_text[1])

C6_Witness ==
    /\ pc = "done" /\ transcription.ok /\ remove_fillers
    /\ transcription.text = <<" ", "\t">>
    /\ result.success
    /\ result.clean_text = << >>

\* C7: _remove_fillers is not idempotent: for every transcript of non-filler
\* words that has a run of exactly three equal words, such as "the the the
\* cat", applying it to its own result gives another string, the second pass
\* collapsing the pair the first left.
C7_NotIdempotentOnTriples ==
    (/\ pc = "twice"
     /\ transcription.ok
     /\ Defillered(transcription.text, order) = Lower(transcription.text)
     /\ HasTripleRun(Split(Lower(transcription.text))))
    => /\ again.raised = ""
       /\ again.text # result.clean_text
       /\ transcription.text = TheTheTheCat => again.text = TheCat

C7_Witness ==
    /\ pc = "twice"
    /\ transcription.text = TheTheTheCat
    /\ result.clean_text = TheTheCat
    /\ again.text = TheCat

\* C8: with remove_fillers false and the provider succeeding, clean_text is
\* raw_text as the provider gave it and fillers_removed is 0; when the
\* provider call fails transcribe() returns {success: false, error} and
\* nothing else.
C8_FlagOffLeavesTextAlone ==
    pc = "done" =>
        /\ (transcription.ok /\ ~remove_fillers) =>
              /\ result.success
              /\ result.raw_text = transcription.text
              /\ result.clean_text = transcription.text
              /\ result.fillers_removed = 0
        /\ ~transcription.ok =>
              /\ DOMAIN result = {"success", "error"}
              /\ ~result.success

C8_Witness ==
    /\ pc = "done" /\ transcription.ok /\ ~remove_fillers
    /\ transcription.text = UmIMean
    /\ result.clean_text = UmIMean
    /\ result.fillers_removed = 0
    /\ RemoveFillers(UmIMean, order).text # UmIMean

\* C10: the result of _remove_fillers does not depend on the order in which
\* the join lists the lexicon: whatever that order, the result is the one the
\* order of the source listing gives; and no call changes self.filler_words.
C10_JoinOrderIrrelevant ==
    /\ filler_words = FillerWords
    /\ IsJoinOrder(order, filler_words)
    /\ Transcribed =>
          result = TranscribeResult(transcription.text, remove_fillers, FillerList)

\* the position of entry e in the join
JoinIndex(e) == CHOOSE i \in 1..Len(order) : order[i] = e

C10_Witness ==
    /\ pc = "done" /\ transcription.ok /\ remove_fillers
    /\ JoinIndex(<<"u","m">>) < JoinIndex(<<"u","m","m">>)
    /\ JoinIndex(<<"u","h","h">>) < JoinIndex(<<"u","h">>)
    /\ transcription.text = <<"u","m","m"," ","u","h","h"," ">>
    /\ result.success
    /\ result.clean_text = << >>

\* the upload of request r has a name and its extension is none of allowed_types
BadExtension(r) ==
    /\ request[r].route # "none"
    /\ request[r].filename # << >>
    /\ FileExt(request[r].filename) \notin AllowedTypes

\* C2: once an upload handler has created its temporary file and called
\* transcribe(), the file is gone when the handler ends, whether the provider
\* succeeded, failed with success=false or the handler raised; and the file
\* is not unlinked before transcribe() has returned.
C2_TempFileRemoved ==
    \A r \in Requests :
        /\ (hpc[r] = "done" /\ called[r]) => tmp[r] = "unlinked"
        /\ tmp[r] = "unlinked" =>
              /\ called[r]
              /\ hpc[r] \in {"respond", "done"}
              /\ hresult[r] # NoResult

C2_Witness ==
    \E r \in Requests :
        /\ hpc[r] = "done"
        /\ request[r].route = "test-command"
        /\ called[r]
        /\ ~hresult[r].success
        /\ response[r].status = 500
        /\ tmp[r] = "unlinked"

\* C9: no upload whose extension is outside the allow-list is written to a
\* temporary file or handed to the provider, on either upload route; it is
\* answered with 400.
C9_BadExtensionRejected ==
    \A r \in Requests :
        BadExtension(r) =>
            /\ tmp[r] = "none"
            /\ ~called[r]
            /\ hpc[r] = "done" => response[r].status = 400

====
